---- MODULE Spec2Model ----
(***************************************************************************)
(* Authentication and authorization core of the FastAPI backend:           *)
(*   - app/models/user.py          User (lockout counters, roles)          *)
(*   - app/services/user_service.py UserService.authenticate               *)
(*                                 and the account maintenance calls       *)
(*   - app/core/security.py        token creation / verification,          *)
(*                                 TokenBlacklist                           *)
(*   - app/api/dependencies.py     authorization guards                    *)
(*   - app/api/v1/endpoints/auth.py login, register, refresh, logout       *)
(*                                                                         *)
(* The credential store is the database behind AsyncSession: a table of    *)
(* user rows.  Every request owns a session; a row loaded by a request is  *)
(* a private copy, and commit flushes the attributes the request changed.  *)
(* Logger calls and the logging decorators are instrumentation and are not *)
(* part of the modelled state.                                             *)
(*                                                                         *)
(* Time is the value of datetime.utcnow(), in minutes.  The clock is       *)
(* sampled at the instants around the 30 minute windows (Instants).        *)
(***************************************************************************)
EXTENDS Integers, Sequences, FiniteSets, TLC

\* ------------------------------------------------------------------ constants

\* models/user.py:75  "if self.failed_login_attempts >= 5"
LOCK_THRESHOLD == 5
\* models/user.py:76  timedelta(minutes=30)
LOCK_MINUTES == 30
\* A nullable DateTime column holding NULL / Python None.
NoTime == -1
\* core/config.py:25  JWT_EXPIRE_MINUTES
JWT_EXPIRE_MINUTES == 30
\* core/security.py:66  timedelta(days=7)
REFRESH_DAYS == 7
\* Tokens created in one behaviour.
MaxTokens == 2

\* The instants at which the clock is observed: the start, and the minute
\* before, at and after the end of a 30 minute window opened at the start.
Instants == {0, LOCK_MINUTES - 1, LOCK_MINUTES, LOCK_MINUTES + 1}

\* Requests served concurrently (each with its own database session).
Procs == {"p1", "p2"}

\* ------------------------------------------------------------------ passwords

Passwords == {"SecurePass123!", "wrong"}

\* security.py get_password_hash: a bcrypt record of the plaintext.
get_password_hash(password) == [scheme |-> "bcrypt", of |-> password]

\* security.py verify_password: pwd_context.verify(plain, hashed).
verify_password(plain_password, hashed_password) ==
    /\ hashed_password.scheme = "bcrypt"
    /\ hashed_password.of = plain_password

\* ------------------------------------------------------------------ accounts

UserIds == {"u1", "u2"}

\* A row of table "users" (the columns the core reads or writes).
NewUser(id, username, email, password, role, active, superuser, verified) ==
    [ id                    |-> id,
      username              |-> username,
      email                 |-> email,
      hashed_password       |-> get_password_hash(password),
      role                  |-> role,
      is_active             |-> active,
      is_superuser          |-> superuser,
      is_verified           |-> verified,
      failed_login_attempts |-> 0,
      locked_until          |-> NoTime,
      last_login_at         |-> NoTime,
      password_changed_at   |-> 0 ]

\* "user = None": no row.
NoUser == [NewUser("None", "None", "None", "None", "None", FALSE, FALSE, FALSE)
              EXCEPT !.hashed_password = [scheme |-> "none", of |-> "none"]]

Columns == DOMAIN NoUser

\* The accounts present at the start, as create_user makes them (role
\* "user", active, not verified); bob has since been deactivated.
InitialUsers ==
    [ id \in UserIds |->
        IF id = "u1"
        THEN NewUser("u1", "alice", "alice@example.com", "SecurePass123!",
                     "user", TRUE, FALSE, FALSE)
        ELSE NewUser("u2", "bob", "bob@example.com", "SecurePass123!",
                     "user", FALSE, FALSE, FALSE) ]

\* Login identifiers a caller may present (usernames never contain "@",
\* schemas/user.py:14, so no username equals an email).
Identifiers == {"alice", "alice@example.com", "bob", "nobody"}

VARIABLES
    now,              \* datetime.utcnow()
    users,            \* the users table: id -> row
    call,             \* per request: the handler and service call in flight
    issued,           \* the create_*_token calls made so far, with what they returned
    token_blacklist,  \* security.token_blacklist._blacklisted_tokens
    resp              \* what the last call on the token service returned

vars == <<now, users, call, issued, token_blacklist, resp>>

\* ------------------------------------------------------------------ User model

\* models/user.py User.verify_password
User_verify_password(user, password) ==
    verify_password(password, user.hashed_password)

\* Mutant: a lock never expires.
is_account_locked_forever(user, t) == user.locked_until # NoTime

\* models/user.py User.is_account_locked, evaluated at clock value t
is_account_locked(user, t) ==
    IF user.locked_until = NoTime THEN FALSE ELSE t < user.locked_until

\* Mutant: the lock is applied only once the counter exceeds the threshold.
increment_failed_login_late(user, t) ==
    LET n == user.failed_login_attempts + 1 IN
    IF n > LOCK_THRESHOLD
    THEN [user EXCEPT !.failed_login_attempts = n,
                      !.locked_until = t + LOCK_MINUTES]
    ELSE [user EXCEPT !.failed_login_attempts = n]

\* Mutant: a failed check counts twice.
increment_failed_login_twice(user, t) ==
    LET n == user.failed_login_attempts + 2 IN
    IF n >= LOCK_THRESHOLD
    THEN [user EXCEPT !.failed_login_attempts = n,
                      !.locked_until = t + LOCK_MINUTES]
    ELSE [user EXCEPT !.failed_login_attempts = n]

\* Mutant: a failure after an expired lock starts the count again.
increment_failed_login_restart(user, t) ==
    IF user.locked_until # NoTime
    THEN [user EXCEPT !.failed_login_attempts = 1, !.locked_until = NoTime]
    ELSE LET n == user.failed_login_attempts + 1 IN
         IF n >= LOCK_THRESHOLD
         THEN [user EXCEPT !.failed_login_attempts = n,
                           !.locked_until = t + LOCK_MINUTES]
         ELSE [user EXCEPT !.failed_login_attempts = n]

\* models/user.py User.increment_failed_login at clock value t
increment_failed_login(user, t) ==
    LET n == user.failed_login_attempts + 1 IN
    IF n >= LOCK_THRESHOLD
    THEN [user EXCEPT !.failed_login_attempts = n,
                      !.locked_until = t + LOCK_MINUTES]
    ELSE [user EXCEPT !.failed_login_attempts = n]

\* Mutant: a successful login resets the counter but keeps locked_until.
reset_failed_login_keeps_lock(user, t) ==
    [user EXCEPT !.failed_login_attempts = 0,
                 !.last_login_at = t]

\* models/user.py User.reset_failed_login at clock value t
reset_failed_login(user, t) ==
    [user EXCEPT !.failed_login_attempts = 0,
                 !.locked_until = NoTime,
                 !.last_login_at = t]

\* ------------------------------------------------------------------ store

\* UserService.get_by_username: SELECT ... WHERE username = :username
get_by_username(username) ==
    IF \E id \in DOMAIN users : users[id].username = username
    THEN users[CHOOSE id \in DOMAIN users : users[id].username = username]
    ELSE NoUser

\* UserService.get_by_email: SELECT ... WHERE email = :email
get_by_email(email) ==
    IF \E id \in DOMAIN users : users[id].email = email
    THEN users[CHOOSE id \in DOMAIN users : users[id].email = email]
    ELSE NoUser

\* Mutant: the call returns without its changes reaching the table.
Flush_nothing(row, loaded, changed) == row

\* Mutant: the UPDATE carries the counter but not locked_until.
Flush_counter_only(row, loaded, changed) ==
    [row EXCEPT !.failed_login_attempts = changed.failed_login_attempts,
                !.last_login_at = changed.last_login_at]

\* Mutant: the counter is updated in the database, relative to the stored
\* value (SET failed_login_attempts = failed_login_attempts + 1).
Flush_atomic_increment(row, loaded, changed) ==
    [c \in Columns |->
        IF changed[c] = loaded[c] THEN row[c]
        ELSE IF c = "failed_login_attempts"
        THEN row[c] + (changed[c] - loaded[c])
        ELSE changed[c]]

\* The UPDATE a session flushes on commit: the columns whose value the
\* request changed on its loaded object, written over the current row.
Flush(row, loaded, changed) ==
    [c \in Columns |-> IF changed[c] # loaded[c] THEN changed[c] ELSE row[c]]

\* ------------------------------------------------------------------ authenticate

IdleCall ==
    [ pc             |-> "idle",
      username       |-> "None",
      password       |-> "None",
      timestamp      |-> NoTime,
      loaded         |-> NoUser,   \* the row as the session loaded it
      user           |-> NoUser,   \* the session's object, with its changes
      failure_reason |-> "None",
      result         |-> "None",   \* the id of the returned User, or "None"
      op             |-> "None",   \* the endpoint serving the request, if any
      email          |-> "None",   \* the email of a registration
      error          |-> "None",   \* the exception the store raised, if any
      raised         |-> "None",   \* the exception the service call raised
      status         |-> 0,        \* the HTTP status of the response
      body           |-> <<>> ]    \* the JSON body of the response

\* The call returns without touching the row.
Fail(p, username, password, user, reason) ==
    call' = [call EXCEPT ![p] =
                [ call[p] EXCEPT
                  !.pc = "done", !.username = username, !.password = password,
                  !.timestamp = now, !.loaded = user, !.user = user,
                  !.failure_reason = reason, !.result = "None" ]]

\* The call changed its object and awaits db.commit().
Pending(p, username, password, user, changed, reason) ==
    call' = [call EXCEPT ![p] =
                [ call[p] EXCEPT
                  !.pc = "commit", !.username = username, !.password = password,
                  !.timestamp = now, !.loaded = user, !.user = changed,
                  !.failure_reason = reason, !.result = "None" ]]

\* Mutant: authenticate does not check is_active.
AuthenticateBody_no_active_check(p, username, password) ==
    LET byName == get_by_username(username)
        user   == IF byName = NoUser THEN get_by_email(username) ELSE byName
    IN
    IF user = NoUser
    THEN Fail(p, username, password, user, "user_not_found")
    ELSE IF is_account_locked(user, now)
    THEN Fail(p, username, password, user, "account_locked")
    ELSE IF ~User_verify_password(user, password)
    THEN Pending(p, username, password, user,
                 increment_failed_login(user, now), "invalid_password")
    ELSE Pending(p, username, password, user,
                 reset_failed_login(user, now), "None")

\* Mutant: is_active is checked after the password.
AuthenticateBody_active_check_last(p, username, password) ==
    LET byName == get_by_username(username)
        user   == IF byName = NoUser THEN get_by_email(username) ELSE byName
    IN
    IF user = NoUser
    THEN Fail(p, username, password, user, "user_not_found")
    ELSE IF is_account_locked(user, now)
    THEN Fail(p, username, password, user, "account_locked")
    ELSE IF ~User_verify_password(user, password)
    THEN Pending(p, username, password, user,
                 increment_failed_login(user, now), "invalid_password")
    ELSE IF ~user.is_active
    THEN Fail(p, username, password, user, "account_inactive")
    ELSE Pending(p, username, password, user,
                 reset_failed_login(user, now), "None")

\* UserService.authenticate, from the lookup to the await of db.commit()
\* (user_service.py:231-299 and 325-328).
AuthenticateBody(p, username, password) ==
    LET byName == get_by_username(username)
        user   == IF byName = NoUser THEN get_by_email(username) ELSE byName
    IN
    IF user = NoUser
    THEN Fail(p, username, password, user, "user_not_found")
    ELSE IF is_account_locked(user, now)
    THEN Fail(p, username, password, user, "account_locked")
    ELSE IF ~user.is_active
    THEN Fail(p, username, password, user, "account_inactive")
    ELSE IF ~User_verify_password(user, password)
    THEN Pending(p, username, password, user,
                 increment_failed_login(user, now), "invalid_password")
    ELSE Pending(p, username, password, user,
                 reset_failed_login(user, now), "None")

Authenticate(p, username, password) ==
    /\ call[p].pc = "idle"
    /\ AuthenticateBody(p, username, password)
    /\ UNCHANGED <<now, users, issued, token_blacklist, resp>>

\* await self.db.commit() and the return that follows it
\* (user_service.py:299-323 and 328-362).
Commit(p) ==
    /\ call[p].pc = "commit"
    /\ LET c  == call[p]
           id == c.loaded.id
       IN
       /\ users' = [users EXCEPT ![id] = Flush(users[id], c.loaded, c.user)]
       /\ call' = [call EXCEPT ![p].pc = "done",
                               ![p].result =
                                   IF c.failure_reason = "None" THEN id ELSE "None"]
    /\ UNCHANGED <<now, issued, token_blacklist, resp>>

\* The UserService operations that are called directly, each on a session of
\* its own ("None": authenticate).
ServiceOps ==
    {"None", "create_user", "update_user", "update_password",
     "update_last_login", "deactivate_user"}

\* The request is over; the worker serves the next one.  A request to an
\* endpoint is over once the endpoint has responded.
Finish(p) ==
    /\ call[p].pc = IF call[p].op \in ServiceOps
                    THEN "done" ELSE "responded"
    /\ call' = [call EXCEPT ![p] = IdleCall]
    /\ UNCHANGED <<now, users, issued, token_blacklist, resp>>

\* The clock advances.  A request is short-lived, far shorter than the gaps
\* between the sampled instants, so no instant passes while one is served.
Tick ==
    /\ \A p \in Procs : call[p].pc = "idle"
    /\ \E t \in Instants : t > now /\ now' = t
    /\ UNCHANGED <<users, call, issued, token_blacklist, resp>>

\* ------------------------------------------------------------------ tokens

\* settings.JWT_SECRET, and a key that is not it.
JWT_SECRET == "JWT_SECRET"
OtherKey == "not the secret"

\* dict.update: the claims of e are added to b and replace those b has.
Update(b, e) ==
    [k \in DOMAIN b \cup DOMAIN e |-> IF k \in DOMAIN e THEN e[k] ELSE b[k]]

\* dict.get(k) of a string-valued claim: None when absent.
Get(payload, k) == IF k \in DOMAIN payload THEN payload[k] ELSE "None"

\* jwt.encode: the claims signed with key (a compact signed string).
jwt_encode(claims, key) == [payload |-> claims, key |-> key]

\* A string that is no JWT at all.
Garbage == jwt_encode(<<>>, "None")

\* verify_token returning None.
NoPayload == [none |-> TRUE]

\* The token strings created so far.
tokens == {c.token : c \in issued}

\* secrets.token_urlsafe(16): a value no earlier token carries.
FreshJti == Cardinality(issued) + 1

\* Python values passed as a token subject: a uuid.UUID (the type of
\* User.id) or a str, each with its text.
UUID(hex) == [py |-> "UUID", v |-> hex]
PyStr(text) == [py |-> "str", v |-> text]

\* str(subject): the canonical text of a UUID, a str itself.
Str(subject) == subject.v

\* Mutant: the additional claims are left out of the token.
create_access_token_no_claims(subject, expires_delta, additional_claims, t, jti) ==
    jwt_encode([ exp |-> t + expires_delta,
                 sub |-> Str(subject),
                 iat |-> t,
                 jti |-> jti ], JWT_SECRET)

\* security.py create_access_token at clock value t, with jti the fresh
\* token id.
create_access_token(subject, expires_delta, additional_claims, t, jti) ==
    LET to_encode == [ exp |-> t + expires_delta,
                       sub |-> Str(subject),
                       iat |-> t,
                       jti |-> jti ]
    IN jwt_encode(Update(to_encode, additional_claims), JWT_SECRET)

\* security.py create_refresh_token at clock value t.
create_refresh_token(subject, t, jti) ==
    jwt_encode([ exp  |-> t + REFRESH_DAYS * 24 * 60,
                 sub  |-> Str(subject),
                 type |-> "refresh",
                 iat  |-> t,
                 jti  |-> jti ], JWT_SECRET)

\* jose.jwt.decode(token, key): the signature is checked against key, then
\* the exp claim against the clock; the token is refused as expired when
\* exp < now.
jwt_decode(token, key, t) ==
    IF token.key # key
    THEN NoPayload
    ELSE IF "exp" \in DOMAIN token.payload /\ token.payload.exp < t
    THEN NoPayload
    ELSE token.payload

\* security.py verify_token at clock value t: the decoded payload, or None.
verify_token(token, t) == jwt_decode(token, JWT_SECRET, t)

\* security.py TokenBlacklist.is_blacklisted
is_blacklisted(jti) == jti \in token_blacklist

\* UserService.get_by_id: SELECT ... WHERE id = :user_id
get_by_id(user_id) ==
    IF user_id \in DOMAIN users THEN users[user_id] ELSE NoUser

\* Subjects for which tokens are created: the ids of the accounts, and the
\* text of an id that no row carries.
AccountSubjects == {UUID(id) : id \in UserIds}
Subjects == AccountSubjects \cup {PyStr("u9")}

\* additional_claims={"role": user.role, "username": user.username}
RoleClaims(user) == [role |-> user.role, username |-> user.username]

\* The additional claims a caller of create_access_token passes for an
\* account: none, its role and username, or a claim named like one the token
\* carries already.
ExtraClaims(subject) ==
    {<<>>, [sub |-> "u2"], RoleClaims(get_by_id(Str(subject)))}

\* What a client may present as a token: a created token, the same claims
\* signed with another key, or garbage.
Presented ==
    tokens \cup {jwt_encode(tok.payload, OtherKey) : tok \in tokens} \cup {Garbage}

\* The token is validly signed, not yet at its expiry and not revoked.
Live(token, t) ==
    /\ token.key = JWT_SECRET
    /\ "exp" \in DOMAIN token.payload
    /\ t < token.payload.exp
    /\ ~is_blacklisted(token.payload.jti)

NoResp ==
    [ op      |-> "None",
      token   |-> Garbage,
      at      |-> NoTime,     \* the clock at the call
      payload |-> NoPayload,  \* verify_token's return value
      live    |-> FALSE,      \* Live(token, at)
      revoked |-> FALSE,      \* the token's jti was blacklisted at the call
      first   |-> NoPayload,  \* the earlier verify_token return for this token
      first_live |-> FALSE,   \*   and whether the token was live then
      twice   |-> FALSE,      \* this is a second verify_token of the token
      status  |-> 0,          \* HTTP status of the endpoint or dependency
      issued  |-> Garbage,    \* the access token in the refresh response
      user     |-> NoUser,    \* the current_user a guard was given
      returned |-> NoUser,    \* the User the guard returned, if it passed
      required |-> "None" ]   \* the role or permission the guard requires

\* A caller creates an access token (login, refresh, tests/conftest.py).
CreateAccessToken(subject, additional_claims) ==
    /\ Cardinality(issued) < MaxTokens
    /\ issued' = issued \cup
          {[ fn                |-> "create_access_token",
             subject           |-> subject,
             additional_claims |-> additional_claims,
             at                |-> now,
             token             |-> create_access_token(subject, JWT_EXPIRE_MINUTES,
                                      additional_claims, now, FreshJti) ]}
    /\ resp' = [NoResp EXCEPT !.op = "create_access_token"]
    /\ UNCHANGED <<now, users, call, token_blacklist>>

\* A caller creates a refresh token (login).
CreateRefreshToken(subject) ==
    /\ Cardinality(issued) < MaxTokens
    /\ issued' = issued \cup
          {[ fn                |-> "create_refresh_token",
             subject           |-> subject,
             additional_claims |-> <<>>,
             at                |-> now,
             token             |-> create_refresh_token(subject, now, FreshJti) ]}
    /\ resp' = [NoResp EXCEPT !.op = "create_refresh_token"]
    /\ UNCHANGED <<now, users, call, token_blacklist>>

\* A mutant of VerifyToken: validating a token uses it up, its jti is
\* added to token_blacklist.
VerifyToken_consumes(token) ==
    /\ resp' = [ NoResp EXCEPT
                   !.op      = "verify_token",
                   !.token   = token,
                   !.at      = now,
                   !.payload = verify_token(token, now),
                   !.live    = Live(token, now),
                   !.twice   = (resp.op = "verify_token" /\ resp.token = token),
                   !.first   = IF resp.op = "verify_token" /\ resp.token = token
                               THEN resp.payload ELSE NoPayload,
                   !.first_live = /\ resp.op = "verify_token"
                                  /\ resp.token = token
                                  /\ resp.live ]
    /\ token_blacklist' =
          IF "jti" \in DOMAIN token.payload
          THEN token_blacklist \cup {token.payload.jti}
          ELSE token_blacklist
    /\ UNCHANGED <<now, users, call, issued>>

\* A caller validates a token: verify_token(token).
VerifyToken(token) ==
    /\ resp' = [ NoResp EXCEPT
                   !.op      = "verify_token",
                   !.token   = token,
                   !.at      = now,
                   !.payload = verify_token(token, now),
                   !.live    = Live(token, now),
                   !.revoked = /\ "jti" \in DOMAIN token.payload
                               /\ is_blacklisted(token.payload.jti),
                   !.twice   = (resp.op = "verify_token" /\ resp.token = token),
                   !.first   = IF resp.op = "verify_token" /\ resp.token = token
                               THEN resp.payload ELSE NoPayload,
                   !.first_live = /\ resp.op = "verify_token"
                                  /\ resp.token = token
                                  /\ resp.live ]
    /\ UNCHANGED <<now, users, call, issued, token_blacklist>>

\* endpoints/auth.py refresh_token: POST /refresh
RefreshToken(token) ==
    LET payload == verify_token(token, now)
        user_id == Get(payload, "sub")
        user    == get_by_id(user_id)
        refused == [NoResp EXCEPT !.op = "refresh", !.token = token,
                                  !.at = now, !.payload = payload,
                                  !.live = Live(token, now),
                                  !.revoked = /\ "jti" \in DOMAIN token.payload
                                              /\ is_blacklisted(token.payload.jti),
                                  !.status = 401]
    IN
    /\ IF payload = NoPayload \/ Get(payload, "type") # "refresh"
       THEN resp' = refused /\ UNCHANGED issued
       ELSE IF user_id = "None"
       THEN resp' = refused /\ UNCHANGED issued
       ELSE IF user = NoUser \/ ~user.is_active
       THEN resp' = refused /\ UNCHANGED issued
       ELSE LET subject == PyStr(Str(UUID(user.id)))
                access_token ==
                  create_access_token(subject, JWT_EXPIRE_MINUTES,
                                      RoleClaims(user), now, FreshJti)
            IN /\ Cardinality(issued) < MaxTokens
               /\ issued' = issued \cup
                     {[ fn                |-> "create_access_token",
                        subject           |-> subject,
                        additional_claims |-> RoleClaims(user),
                        at                |-> now,
                        token             |-> access_token ]}
               /\ resp' = [refused EXCEPT !.status = 200, !.issued = access_token]
    /\ UNCHANGED <<now, users, call, token_blacklist>>

\* endpoints/auth.py logout: POST /logout, whatever token the request
\* carries (Garbage stands for a request without a usable Authorization
\* header); the answer is {"message": "Successfully logged out"}.
Logout(token) ==
    /\ resp' = [ NoResp EXCEPT
                   !.op      = "logout",
                   !.token   = token,
                   !.at      = now,
                   !.live    = Live(token, now),
                   !.status  = 200 ]
    /\ UNCHANGED <<now, users, call, issued, token_blacklist>>

\* security.py TokenBlacklist.add_token
add_token(jti) ==
    /\ token_blacklist' = token_blacklist \cup {jti}
    /\ resp' = [NoResp EXCEPT !.op = "add_token"]
    /\ UNCHANGED <<now, users, call, issued>>

\* security.py TokenBlacklist.remove_token
remove_token(jti) ==
    /\ token_blacklist' = token_blacklist \ {jti}
    /\ resp' = [NoResp EXCEPT !.op = "remove_token"]
    /\ UNCHANGED <<now, users, call, issued>>

\* ------------------------------------------------------------------ specification

Init ==
    /\ now = 0
    /\ users = InitialUsers
    /\ call = [p \in Procs |-> IdleCall]
    /\ issued = {}
    /\ token_blacklist = {}
    /\ resp = NoResp

\* Concurrent requests: authenticate calls interleave at their await points.
AuthNext ==
    \/ \E p \in Procs, username \in Identifiers, password \in Passwords :
          Authenticate(p, username, password)
    \/ \E p \in Procs : Commit(p)
    \/ \E p \in Procs : Finish(p)
    \/ Tick

AuthSpec == Init /\ [][AuthNext]_vars

\* Sequential requests: a call starts when no other call is in flight.
SeqAuthenticate(p, username, password) ==
    /\ \A q \in Procs \ {p} : call[q].pc = "idle"
    /\ Authenticate(p, username, password)

SeqNext ==
    \/ \E p \in Procs, username \in Identifiers, password \in Passwords :
          SeqAuthenticate(p, username, password)
    \/ \E p \in Procs : Commit(p)
    \/ \E p \in Procs : Finish(p)
    \/ Tick

SeqSpec == Init /\ [][SeqNext]_vars

\* ------------------------------------------------------------------ login

\* Successful logins in one behaviour.
MaxLogins == 2

\* POST /login arrives with the form's username and password
\* (endpoints/auth.py:25-34).
LoginRequest(p, username, password) ==
    /\ \A q \in Procs : call[q].pc = "idle"
    /\ call' = [call EXCEPT ![p] =
                  [ IdleCall EXCEPT !.pc = "login", !.op = "login",
                                    !.username = username,
                                    !.password = password ]]
    /\ UNCHANGED <<now, users, issued, token_blacklist, resp>>

\* login calls user_service.authenticate (endpoints/auth.py:38-41).
LoginAuthenticate(p) ==
    /\ call[p].pc = "login"
    /\ AuthenticateBody(p, call[p].username, call[p].password)
    /\ UNCHANGED <<now, users, issued, token_blacklist, resp>>

\* A response that raises HTTPException(status_code, detail).
Raise(p, status_code, detail) ==
    /\ call' = [call EXCEPT ![p].pc = "responded",
                            ![p].status = status_code,
                            ![p].body = [detail |-> detail]]
    /\ UNCHANGED <<now, users, issued, token_blacklist, resp>>

\* login from the return of authenticate to its response
\* (endpoints/auth.py:43-103), update_last_login included.
LoginReturn(p) ==
    /\ call[p].pc = "done"
    /\ call[p].op = "login"
    /\ LET user == call[p].user IN
       IF call[p].result = "None"
       THEN Raise(p, 401, "Incorrect username or password")
       ELSE IF ~user.is_active
       THEN Raise(p, 400, "Inactive user")
       ELSE IF is_account_locked(user, now)
       THEN Raise(p, 423, "Account is temporarily locked due to failed login attempts")
       ELSE LET subject       == PyStr(Str(UUID(user.id)))
                access_token  == create_access_token(subject, JWT_EXPIRE_MINUTES,
                                     RoleClaims(user), now, FreshJti)
                refresh_token == create_refresh_token(subject, now, FreshJti + 1)
            IN
            /\ Cardinality(issued) < 2 * MaxLogins
            /\ issued' = issued \cup
                  { [ fn                |-> "create_access_token",
                      subject           |-> subject,
                      additional_claims |-> RoleClaims(user),
                      at                |-> now,
                      token             |-> access_token ],
                    [ fn                |-> "create_refresh_token",
                      subject           |-> subject,
                      additional_claims |-> <<>>,
                      at                |-> now,
                      token             |-> refresh_token ] }
            /\ users' = [users EXCEPT ![user.id].last_login_at = now]
            /\ call' = [call EXCEPT
                          ![p].pc = "responded",
                          ![p].status = 200,
                          ![p].body = [ access_token  |-> access_token,
                                        refresh_token |-> refresh_token,
                                        token_type    |-> "bearer",
                                        expires_in    |-> JWT_EXPIRE_MINUTES * 60 ]]
            /\ UNCHANGED <<now, token_blacklist, resp>>

\* ------------------------------------------------------------------ register

\* uuid4() values for new rows.
NewIds == {"u3", "u4"}

\* The usernames and emails of registrations: those of a stored account and
\* two fresh ones.
Usernames == {"alice", "carol", "dave"}
Emails == {"alice@example.com", "carol@example.com", "dave@example.com"}

\* POST /register arrives with the UserRegister data (endpoints/auth.py:115-124).
RegisterRequest(p, username, email, password) ==
    /\ call[p].pc = "idle"
    /\ call' = [call EXCEPT ![p] =
                  [ IdleCall EXCEPT !.pc = "r_email", !.op = "register",
                                    !.username = username, !.email = email,
                                    !.password = password ]]
    /\ UNCHANGED <<now, users, issued, token_blacklist, resp>>

\* A caller other than register calls UserService.create_user(user_data).
CreateUserCall(p, username, email, password) ==
    /\ call[p].pc = "idle"
    /\ call' = [call EXCEPT ![p] =
                  [ IdleCall EXCEPT !.pc = "c_username", !.op = "create_user",
                                    !.username = username, !.email = email,
                                    !.password = password ]]
    /\ UNCHANGED <<now, users, issued, token_blacklist, resp>>

\* register with the result of its get_by_email (endpoints/auth.py:128-133).
RegisterEmailChecked(p, existing_user) ==
    IF existing_user # NoUser
    THEN Raise(p, 400, "Email already registered")
    ELSE /\ call' = [call EXCEPT ![p].pc = "r_username"]
         /\ UNCHANGED <<now, users, issued, token_blacklist, resp>>

\* register with the result of its get_by_username (endpoints/auth.py:135-140).
RegisterUsernameChecked(p, existing_user) ==
    IF existing_user # NoUser
    THEN Raise(p, 400, "Username already taken")
    ELSE /\ call' = [call EXCEPT ![p].pc = "c_username"]
         /\ UNCHANGED <<now, users, issued, token_blacklist, resp>>

\* create_user raises: it rolls back and re-raises (user_service.py:557-606);
\* register turns the exception into a 500 (endpoints/auth.py:156-161).
CreateUserRaises(p, exception) ==
    /\ call' = [call EXCEPT
                  ![p].pc = IF call[p].op = "register" THEN "responded" ELSE "done",
                  ![p].raised = exception,
                  ![p].status = IF call[p].op = "register" THEN 500 ELSE 0,
                  ![p].body = IF call[p].op = "register"
                              THEN [detail |-> "Internal server error"]
                              ELSE <<>>]
    /\ UNCHANGED <<now, users, issued, token_blacklist, resp>>

\* create_user with the result of its get_by_username (user_service.py:448-461).
CreateUsernameChecked(p, existing_username) ==
    IF existing_username # NoUser
    THEN CreateUserRaises(p, "IntegrityError")
    ELSE /\ call' = [call EXCEPT ![p].pc = "c_email"]
         /\ UNCHANGED <<now, users, issued, token_blacklist, resp>>

\* create_user with the result of its get_by_email (user_service.py:464-477).
CreateEmailChecked(p, existing_email) ==
    IF existing_email # NoUser
    THEN CreateUserRaises(p, "IntegrityError")
    ELSE /\ call' = [call EXCEPT ![p].pc = "insert"]
         /\ UNCHANGED <<now, users, issued, token_blacklist, resp>>

\* Mutant: the table has no unique indexes.
NoUniqueViolation(username, email) == FALSE

\* The unique indexes on users.email and users.username (models/user.py:28-29)
\* refuse the row.
UniqueViolation(username, email) ==
    \E id \in DOMAIN users :
       users[id].username = username \/ users[id].email = email

\* The table with one more row.
Insert(row) ==
    [id \in DOMAIN users \cup {row.id} |-> IF id = row.id THEN row ELSE users[id]]

\* create_user builds the User, adds it and commits (user_service.py:487-555);
\* register returns the created user (endpoints/auth.py:143-152).
CreateUserCommit(p, violation) ==
    LET c    == call[p]
        id   == CHOOSE id \in NewIds : id \notin DOMAIN users
        user == NewUser(id, c.username, c.email, c.password,
                        "user", TRUE, FALSE, FALSE)
    IN
    IF violation
    THEN CreateUserRaises(p, "IntegrityError")
    ELSE /\ NewIds \ DOMAIN users # {}
         /\ users' = Insert([user EXCEPT !.password_changed_at = now])
         /\ call' = [call EXCEPT
                       ![p].pc = IF c.op = "register" THEN "responded" ELSE "done",
                       ![p].user = user,
                       ![p].result = id,
                       ![p].timestamp = now,
                       ![p].status = IF c.op = "register" THEN 200 ELSE 0,
                       ![p].body = IF c.op = "register"
                                   THEN [id |-> id, username |-> c.username,
                                         email |-> c.email]
                                   ELSE <<>>]
         /\ UNCHANGED <<now, issued, token_blacklist, resp>>

RegisterCheckEmail(p) ==
    /\ call[p].pc = "r_email"
    /\ RegisterEmailChecked(p, get_by_email(call[p].email))

RegisterCheckUsername(p) ==
    /\ call[p].pc = "r_username"
    /\ RegisterUsernameChecked(p, get_by_username(call[p].username))

CreateCheckUsername(p) ==
    /\ call[p].pc = "c_username"
    /\ CreateUsernameChecked(p, get_by_username(call[p].username))

CreateCheckEmail(p) ==
    /\ call[p].pc = "c_email"
    /\ CreateEmailChecked(p, get_by_email(call[p].email))

CreateCommit(p) ==
    /\ call[p].pc = "insert"
    /\ CreateUserCommit(p, UniqueViolation(call[p].username, call[p].email))

\* ------------------------------------------------------------------ store failures

\* get_by_username and get_by_email catch the exception of a failed SELECT
\* and return None (user_service.py:166-168, 177-179); authenticate then
\* finds no user (user_service.py:233-249).
AuthenticateLookupFails(p, username, password) ==
    /\ \A q \in Procs : call[q].pc = "idle"
    /\ call' = [call EXCEPT ![p] =
                  [ IdleCall EXCEPT
                    !.pc = "done", !.username = username, !.password = password,
                    !.timestamp = now, !.failure_reason = "user_not_found",
                    !.error = "StorageError" ]]
    /\ UNCHANGED <<now, users, issued, token_blacklist, resp>>

\* Mutant: the handler lets the exception of the commit propagate.
AuthenticateExcept_reraises(c) ==
    [c EXCEPT !.pc = "done", !.error = "SQLAlchemyError",
              !.raised = "SQLAlchemyError"]

\* authenticate's `except SQLAlchemyError: ... return None`
\* (user_service.py:364-377).
AuthenticateExcept(c) ==
    [c EXCEPT !.pc = "done", !.error = "SQLAlchemyError", !.result = "None"]

\* await self.db.commit() raises in authenticate (user_service.py:299, 328).
CommitFails(p) ==
    /\ call[p].pc = "commit"
    /\ call' = [call EXCEPT ![p] = AuthenticateExcept(call[p])]
    /\ UNCHANGED <<now, users, issued, token_blacklist, resp>>

\* Where register and create_user go on when a lookup has found nobody.
AfterLookup ==
    [ r_email |-> "r_username", r_username |-> "c_username",
      c_username |-> "c_email", c_email |-> "insert" ]

\* A lookup of register or create_user fails: get_by_email / get_by_username
\* return None and the caller goes on as if nobody was found.
LookupFails(p) ==
    /\ call[p].pc \in DOMAIN AfterLookup
    /\ call' = [call EXCEPT ![p].pc = AfterLookup[call[p].pc],
                            ![p].error = "StorageError"]
    /\ UNCHANGED <<now, users, issued, token_blacklist, resp>>

\* db.commit() raises SQLAlchemyError in create_user (user_service.py:574-589).
CreateCommitFails(p) ==
    /\ call[p].pc = "insert"
    /\ CreateUserRaises(p, "SQLAlchemyError")

\* ------------------------------------------------------------------ account maintenance

\* A password a user changes to.
NewPassword == "NewPass456!"

\* The ids callers pass: those of the accounts and one that no row carries.
CallerIds == UserIds \cup {"u9"}

\* The UserUpdate data of the update_user calls (schemas/user.py:38-44):
\* a fresh username, or the email another account may hold.
UserUpdates == {[username |-> "carol"], [email |-> "bob@example.com"]}

\* models/user.py User.set_password at clock value t
set_password(user, password, t) ==
    [user EXCEPT !.hashed_password = get_password_hash(password),
                 !.password_changed_at = t]

\* "for field, value in update_data.items(): setattr(user, field, value)"
SetAttrs(user, update_data) ==
    [c \in Columns |-> IF c \in DOMAIN update_data THEN update_data[c] ELSE user[c]]

\* The operation returns value without a commit.
Return(p, op, user, password, value) ==
    call' = [call EXCEPT ![p] =
                [ IdleCall EXCEPT
                  !.pc = "done", !.op = op, !.password = password,
                  !.timestamp = now, !.loaded = user, !.user = user,
                  !.result = value ]]

\* The operation changed its object and awaits db.commit().
Await(p, op, user, password, changed) ==
    call' = [call EXCEPT ![p] =
                [ IdleCall EXCEPT
                  !.pc = "flush", !.op = op, !.password = password,
                  !.timestamp = now, !.loaded = user, !.user = changed ]]

\* UserService.update_user up to its commit (user_service.py:608-622).
UpdateUser(p, user_id, user_data) ==
    /\ call[p].pc = "idle"
    /\ LET user == get_by_id(user_id) IN
       IF user = NoUser
       THEN Return(p, "update_user", user, "None", "None")
       ELSE Await(p, "update_user", user, "None", SetAttrs(user, user_data))
    /\ UNCHANGED <<now, users, issued, token_blacklist, resp>>

\* Mutant: the password is changed without checking the current one.
UpdatePasswordBody_unchecked(p, user_id, current_password, new_password) ==
    LET user == get_by_id(user_id) IN
    IF user = NoUser
    THEN Return(p, "update_password", user, current_password, "False")
    ELSE Await(p, "update_password", user, current_password,
               set_password(user, new_password, now))

\* UserService.update_password up to its commit (user_service.py:633-647).
UpdatePasswordBody(p, user_id, current_password, new_password) ==
    LET user == get_by_id(user_id) IN
    IF user = NoUser
    THEN Return(p, "update_password", user, current_password, "False")
    ELSE IF ~User_verify_password(user, current_password)
    THEN Return(p, "update_password", user, current_password, "False")
    ELSE Await(p, "update_password", user, current_password,
               set_password(user, new_password, now))

UpdatePassword(p, user_id, current_password, new_password) ==
    /\ call[p].pc = "idle"
    /\ UpdatePasswordBody(p, user_id, current_password, new_password)
    /\ UNCHANGED <<now, users, issued, token_blacklist, resp>>

\* UserService.update_last_login up to its commit (user_service.py:692-714).
UpdateLastLogin(p, user_id) ==
    /\ call[p].pc = "idle"
    /\ LET user == get_by_id(user_id) IN
       IF user = NoUser
       THEN Return(p, "update_last_login", user, "None", "False")
       ELSE Await(p, "update_last_login", user, "None",
                  [user EXCEPT !.last_login_at = now])
    /\ UNCHANGED <<now, users, issued, token_blacklist, resp>>

\* Mutant: deactivating an account also clears its lock.
Deactivated_unlocks(user) ==
    [user EXCEPT !.is_active = FALSE, !.locked_until = NoTime,
                 !.failed_login_attempts = 0]

\* "user.is_active = False" (user_service.py:779)
Deactivated(user) == [user EXCEPT !.is_active = FALSE]

\* UserService.deactivate_user up to its commit (user_service.py:772-782).
DeactivateUser(p, user_id) ==
    /\ call[p].pc = "idle"
    /\ LET user == get_by_id(user_id) IN
       IF user = NoUser
       THEN Return(p, "deactivate_user", user, "None", "False")
       ELSE Await(p, "deactivate_user", user, "None", Deactivated(user))
    /\ UNCHANGED <<now, users, issued, token_blacklist, resp>>

\* The value the operation returns after its commit: the user (update_user)
\* or True.
Returned(c) == IF c.op = "update_user" THEN c.loaded.id ELSE "True"

\* The UPDATE would give the row a username or an email another row has
\* (the unique indexes of models/user.py:28-29).
UpdateViolation(c) ==
    \E id \in DOMAIN users \ {c.loaded.id} :
       \/ c.user.username # c.loaded.username /\ users[id].username = c.user.username
       \/ c.user.email # c.loaded.email /\ users[id].email = c.user.email

\* await self.db.commit() of update_user, update_password, update_last_login
\* and deactivate_user, and the return after it.  When the commit raises,
\* update_user rolls back and re-raises (user_service.py:628-631).
ServiceCommit(p) ==
    /\ call[p].pc = "flush"
    /\ LET c  == call[p]
           id == c.loaded.id
       IN
       IF UpdateViolation(c)
       THEN /\ call' = [call EXCEPT ![p].pc = "done",
                                    ![p].raised = "IntegrityError"]
            /\ UNCHANGED users
       ELSE /\ users' = [users EXCEPT ![id] = Flush(users[id], c.loaded, c.user)]
            /\ call' = [call EXCEPT ![p].pc = "done",
                                    ![p].result = Returned(c)]
    /\ UNCHANGED <<now, issued, token_blacklist, resp>>

\* ------------------------------------------------------------------ guards

Roles == {"admin", "moderator", "user", "guest"}
RequiredRoles == {"admin", "moderator", "user"}
Permissions ==
    {"read", "write", "delete", "manage_users", "moderate", "write_own", "export"}

\* The User objects a guard may be given as current_user.
CurrentUsers ==
    { NewUser("u1", "alice", "alice@example.com", "SecurePass123!",
              role, active, superuser, verified) :
        role \in Roles, active \in BOOLEAN, superuser \in BOOLEAN,
        verified \in BOOLEAN }

\* models/user.py User.has_role, with a mutant that ignores is_superuser.
has_role_exact(user, role) == user.role = role
has_role(user, role) == user.role = role \/ user.is_superuser

\* models/user.py User.has_permission: the role_permissions table.
role_permissions ==
    [ admin     |-> <<"read", "write", "delete", "manage_users">>,
      moderator |-> <<"read", "write", "moderate">>,
      user      |-> <<"read", "write_own">> ]

\* dict.get(key, default)
GetOr(dict, key, default) == IF key \in DOMAIN dict THEN dict[key] ELSE default

\* permission in user_permissions
In(x, list) == \E i \in DOMAIN list : list[i] = x

\* A mutant of has_permission: a role the table does not name is given the
\* permissions of "user".
has_permission_default_user(user, permission) ==
    IF user.is_superuser
    THEN TRUE
    ELSE In(permission, GetOr(role_permissions, user.role, role_permissions["user"]))

\* models/user.py User.has_permission
has_permission(user, permission) ==
    IF user.is_superuser
    THEN TRUE
    ELSE In(permission, GetOr(role_permissions, user.role, <<>>))

\* Mutant: a superuser passes the active gate.
get_current_active_user_unless_superuser(current_user) ==
    IF ~current_user.is_active /\ ~current_user.is_superuser THEN 400 ELSE 200

\* dependencies.py get_current_active_user: the status it raises, or 200.
get_current_active_user(current_user) ==
    IF ~current_user.is_active THEN 400 ELSE 200

\* dependencies.py get_current_verified_user behind its dependency
\* get_current_active_user: the status it raises, or 200.
get_current_verified_user(current_user) ==
    IF get_current_active_user(current_user) # 200
    THEN get_current_active_user(current_user)
    ELSE IF ~current_user.is_verified THEN 400 ELSE 200

\* What a guard that answered status returns: the current_user it was given
\* when it passed.
Passed(status, current_user) == IF status = 200 THEN current_user ELSE NoUser

\* A request passes get_current_active_user.
GetCurrentActiveUser(current_user) ==
    /\ resp' = [ NoResp EXCEPT
                   !.op = "get_current_active_user",
                   !.user = current_user,
                   !.status = get_current_active_user(current_user),
                   !.returned = Passed(get_current_active_user(current_user),
                                       current_user) ]
    /\ UNCHANGED <<now, users, call, issued, token_blacklist>>

\* A request passes get_current_verified_user.
GetCurrentVerifiedUser(current_user) ==
    /\ resp' = [ NoResp EXCEPT
                   !.op = "get_current_verified_user",
                   !.user = current_user,
                   !.status = get_current_verified_user(current_user),
                   !.returned = Passed(get_current_verified_user(current_user),
                                       current_user) ]
    /\ UNCHANGED <<now, users, call, issued, token_blacklist>>

\* dependencies.py require_role(required_role): role_checker behind its
\* dependency get_current_active_user.
role_checker(required_role, current_user) ==
    /\ resp' = [ NoResp EXCEPT
                   !.op = "require_role",
                   !.user = current_user,
                   !.required = required_role,
                   !.status =
                      IF get_current_active_user(current_user) # 200
                      THEN get_current_active_user(current_user)
                      ELSE IF ~has_role(current_user, required_role)
                      THEN 403
                      ELSE 200,
                   !.returned =
                      IF /\ get_current_active_user(current_user) = 200
                         /\ has_role(current_user, required_role)
                      THEN current_user ELSE NoUser ]
    /\ UNCHANGED <<now, users, call, issued, token_blacklist>>

\* dependencies.py require_permission(required_permission):
\* permission_checker behind its dependency get_current_active_user.
permission_checker(required_permission, current_user) ==
    /\ resp' = [ NoResp EXCEPT
                   !.op = "require_permission",
                   !.user = current_user,
                   !.required = required_permission,
                   !.status =
                      IF get_current_active_user(current_user) # 200
                      THEN get_current_active_user(current_user)
                      ELSE IF ~has_permission(current_user, required_permission)
                      THEN 403
                      ELSE 200,
                   !.returned =
                      IF /\ get_current_active_user(current_user) = 200
                         /\ has_permission(current_user, required_permission)
                      THEN current_user ELSE NoUser ]
    /\ UNCHANGED <<now, users, call, issued, token_blacklist>>

\* Requests pass the role and permission guards.
GuardNext ==
    \/ \E required_role \in RequiredRoles, current_user \in CurrentUsers :
          role_checker(required_role, current_user)
    \/ \E required_permission \in Permissions, current_user \in CurrentUsers :
          permission_checker(required_permission, current_user)
    \/ \E current_user \in CurrentUsers : GetCurrentActiveUser(current_user)
    \/ \E current_user \in CurrentUsers : GetCurrentVerifiedUser(current_user)

GuardSpec == Init /\ [][GuardNext]_vars

\* ------------------------------------------------------------------ bearer tokens

\* schemas/user.py TokenPayload(**payload): the fields of the schema, None
\* for a claim the payload lacks; other claims are ignored.
TokenPayload(payload) ==
    [k \in {"sub", "exp", "iat", "jti", "role"} |->
        IF k \in DOMAIN payload THEN payload[k] ELSE "None"]

\* dependencies.py get_current_user_token at clock value t: the TokenPayload
\* it returns, or None where it raises credentials_exception (401).
get_current_user_token(token, t) ==
    LET payload == verify_token(token, t) IN
    IF payload = NoPayload
    THEN NoPayload
    ELSE IF TokenPayload(payload).sub = "None"
    THEN NoPayload
    ELSE TokenPayload(payload)

\* A request presents token as its bearer credential to an endpoint that
\* depends on get_current_user_token.
GetCurrentUserToken(token) ==
    /\ resp' = [ NoResp EXCEPT
                   !.op      = "get_current_user_token",
                   !.token   = token,
                   !.at      = now,
                   !.payload = get_current_user_token(token, now),
                   !.live    = Live(token, now),
                   !.status  = IF get_current_user_token(token, now) = NoPayload
                               THEN 401 ELSE 200 ]
    /\ UNCHANGED <<now, users, call, issued, token_blacklist>>

\* dependencies.py get_current_user: the User it builds from the token
\* data (a new User() with id uuid4(), the role of the token or "user",
\* is_active and is_verified True; every other attribute None).
get_current_user(token_data) ==
    [ NoUser EXCEPT
        !.id          = "uuid4()",
        !.username    = "demo_user",
        !.email       = "demo@example.com",
        !.role        = IF token_data.role = "None" THEN "user" ELSE token_data.role,
        !.is_active   = TRUE,
        !.is_verified = TRUE ]

\* The current_user of a request whose bearer credential is token, where
\* get_current_user_token accepts it.
CurrentUserOf(token) ==
    IF get_current_user_token(token, now) = NoPayload
    THEN NoUser
    ELSE get_current_user(get_current_user_token(token, now))

\* The answer of a guard to a request whose bearer credential is token:
\* 401 from get_current_user_token, or the status the guard answers to the
\* user get_current_user returns.
Guarded(op, required, token, status) ==
    LET token_data   == get_current_user_token(token, now)
        current_user == CurrentUserOf(token)
    IN
    /\ resp' = IF token_data = NoPayload
               THEN [ NoResp EXCEPT
                        !.op = op, !.token = token, !.at = now,
                        !.required = required, !.status = 401 ]
               ELSE [ NoResp EXCEPT
                        !.op = op, !.token = token, !.at = now,
                        !.required = required,
                        !.payload = token_data,
                        !.user = current_user,
                        !.status = status,
                        !.returned = Passed(status, current_user) ]
    /\ UNCHANGED <<now, users, call, issued, token_blacklist>>

\* The status role_checker and permission_checker answer to current_user.
role_status(required_role, current_user) ==
    IF get_current_active_user(current_user) # 200
    THEN get_current_active_user(current_user)
    ELSE IF ~has_role(current_user, required_role) THEN 403 ELSE 200

permission_status(required_permission, current_user) ==
    IF get_current_active_user(current_user) # 200
    THEN get_current_active_user(current_user)
    ELSE IF ~has_permission(current_user, required_permission) THEN 403 ELSE 200

\* A request with bearer credential token to an endpoint that depends on
\* get_current_active_user, on require_role(required_role) or on
\* require_permission(required_permission).
ActiveUserRequest(token) ==
    Guarded("active_user_request", "None", token,
            get_current_active_user(CurrentUserOf(token)))

RoleRequest(required_role, token) ==
    Guarded("role_request", required_role, token,
            role_status(required_role, CurrentUserOf(token)))

PermissionRequest(required_permission, token) ==
    Guarded("permission_request", required_permission, token,
            permission_status(required_permission, CurrentUserOf(token)))

\* Login requests served one at a time.
LoginNext ==
    \/ \E p \in Procs, username \in Identifiers, password \in Passwords :
          LoginRequest(p, username, password)
    \/ \E p \in Procs : LoginAuthenticate(p)
    \/ \E p \in Procs : Commit(p)
    \/ \E p \in Procs : LoginReturn(p)
    \/ \E p \in Procs : Finish(p)
    \/ Tick

LoginSpec == Init /\ [][LoginNext]_vars

\* Concurrent registrations and create_user calls.
RegisterNext ==
    \/ \E p \in Procs, username \in Usernames, email \in Emails :
          RegisterRequest(p, username, email, "SecurePass123!")
    \/ \E p \in Procs, username \in Usernames, email \in Emails :
          CreateUserCall(p, username, email, "SecurePass123!")
    \/ \E p \in Procs : RegisterCheckEmail(p)
    \/ \E p \in Procs : RegisterCheckUsername(p)
    \/ \E p \in Procs : CreateCheckUsername(p)
    \/ \E p \in Procs : CreateCheckEmail(p)
    \/ \E p \in Procs : CreateCommit(p)
    \/ \E p \in Procs : Finish(p)

RegisterSpec == Init /\ [][RegisterNext]_vars

\* The token service: tokens are created, presented, refreshed and revoked
\* while the clock advances.
TokenNext ==
    \/ \E subject \in AccountSubjects :
          \E additional_claims \in ExtraClaims(subject) :
             CreateAccessToken(subject, additional_claims)
    \/ \E subject \in Subjects : CreateRefreshToken(subject)
    \/ \E token \in Presented : VerifyToken(token)
    \/ \E token \in Presented : RefreshToken(token)
    \/ \E token \in tokens : add_token(token.payload.jti)
    \/ \E jti \in token_blacklist : remove_token(jti)
    \/ Tick

TokenSpec == Init /\ [][TokenNext]_vars

\* Requests served one at a time by a store whose statements may fail.
FaultNext ==
    \/ \E p \in Procs, username \in Identifiers, password \in Passwords :
          SeqAuthenticate(p, username, password)
    \/ \E p \in Procs, username \in Identifiers, password \in Passwords :
          AuthenticateLookupFails(p, username, password)
    \/ \E p \in Procs : Commit(p)
    \/ \E p \in Procs : CommitFails(p)
    \/ \E p \in Procs, username \in Usernames \ {"dave"},
             email \in Emails \ {"dave@example.com"} :
          /\ \A q \in Procs : call[q].pc = "idle"
          /\ RegisterRequest(p, username, email, "SecurePass123!")
    \/ \E p \in Procs : RegisterCheckEmail(p)
    \/ \E p \in Procs : RegisterCheckUsername(p)
    \/ \E p \in Procs : CreateCheckUsername(p)
    \/ \E p \in Procs : CreateCheckEmail(p)
    \/ \E p \in Procs : LookupFails(p)
    \/ \E p \in Procs : CreateCommit(p)
    \/ \E p \in Procs : CreateCommitFails(p)
    \/ \E p \in Procs : Finish(p)

FaultSpec == Init /\ [][FaultNext]_vars

\* Sessions: tokens are created, used and logged out.
LogoutNext ==
    \/ \E subject \in AccountSubjects :
          CreateAccessToken(subject, RoleClaims(get_by_id(Str(subject))))
    \/ \E token \in Presented : VerifyToken(token)
    \/ \E token \in Presented : Logout(token)
    \/ Tick

LogoutSpec == Init /\ [][LogoutNext]_vars

\* No request is in flight.
AllIdle == \A q \in Procs : call[q].pc = "idle"

\* Accounts in use, one request at a time: logins alternate with profile and
\* password updates, login-time updates and deactivation.
AccountNext ==
    \/ \E p \in Procs, username \in Identifiers,
             password \in Passwords \cup {NewPassword} :
          SeqAuthenticate(p, username, password)
    \/ \E p \in Procs : Commit(p)
    \/ \E p \in Procs, user_id \in CallerIds, user_data \in UserUpdates :
          AllIdle /\ UpdateUser(p, user_id, user_data)
    \/ \E p \in Procs, user_id \in CallerIds,
             current_password \in Passwords \cup {NewPassword} :
          AllIdle /\ UpdatePassword(p, user_id, current_password, NewPassword)
    \/ \E p \in Procs, user_id \in CallerIds :
          AllIdle /\ UpdateLastLogin(p, user_id)
    \/ \E p \in Procs, user_id \in CallerIds :
          AllIdle /\ DeactivateUser(p, user_id)
    \/ \E p \in Procs : ServiceCommit(p)
    \/ \E p \in Procs : Finish(p)

AccountSpec == Init /\ [][AccountNext]_vars

\* Bearer credentials: the tokens login hands out are created and presented
\* to the protected endpoints while the clock advances.
BearerNext ==
    \/ \E subject \in AccountSubjects :
          CreateAccessToken(subject, RoleClaims(get_by_id(Str(subject))))
    \/ \E subject \in AccountSubjects : CreateRefreshToken(subject)
    \/ \E token \in Presented : GetCurrentUserToken(token)
    \/ \E token \in Presented : ActiveUserRequest(token)
    \/ \E token \in Presented : RoleRequest("user", token)
    \/ \E token \in Presented : PermissionRequest("read", token)
    \/ AllIdle /\ DeactivateUser("p1", "u1")
    \/ \E p \in Procs : ServiceCommit(p)
    \/ \E p \in Procs : Finish(p)
    \/ Tick

BearerSpec == Init /\ [][BearerNext]_vars

Next == AuthNext \/ TokenNext \/ GuardNext \/ LoginNext \/ RegisterNext
        \/ LogoutNext \/ FaultNext \/ AccountNext \/ BearerNext

Spec == Init /\ [][Next]_vars

\* ------------------------------------------------------------------ claims

\* The password of a finished call is the right one for the row it loaded.
RightPassword(c) == User_verify_password(c.loaded, c.password)

\* C1: (sequential calls) a call made while the account's locked_until is in
\* the future fails as locked whatever the password, and the failed password
\* check that brings the counter to 5 or more leaves the account locked until
\* 30 minutes after that check.
C1_LockedOut ==
    \A p \in Procs :
      call[p].pc = "done" =>
        LET c == call[p] IN
        /\ ( /\ c.loaded # NoUser
             /\ c.loaded.locked_until # NoTime
             /\ c.timestamp < c.loaded.locked_until )
           => ( c.result = "None" /\ c.failure_reason = "account_locked" )
        /\ ( /\ c.failure_reason = "invalid_password"
             /\ c.loaded.failed_login_attempts + 1 >= LOCK_THRESHOLD )
           => ( /\ users[c.loaded.id].failed_login_attempts
                      = c.loaded.failed_login_attempts + 1
                /\ users[c.loaded.id].locked_until = c.timestamp + LOCK_MINUTES
                /\ is_account_locked(users[c.loaded.id], now) )

\* C1 witness: scenario 1, the immediate retry with the correct password
\* after the fifth failure is refused as locked.
C1_Witness ==
    \E p \in Procs :
      /\ call[p].pc = "done"
      /\ call[p].failure_reason = "account_locked"
      /\ RightPassword(call[p])
      /\ call[p].loaded.failed_login_attempts = LOCK_THRESHOLD
      /\ call[p].loaded.locked_until = call[p].timestamp + LOCK_MINUTES

\* C2: (sequential calls) authenticate with the username or email of an
\* active, unlocked account and its correct password returns that account and
\* leaves the counter 0, locked_until cleared and last_login_at set.
C2_SuccessResets ==
    \A p \in Procs : \A id \in DOMAIN users :
      LET c == call[p] IN
      ( /\ c.pc = "done"
        /\ c.username \in {users[id].username, users[id].email}
        /\ users[id].is_active
        /\ verify_password(c.password, users[id].hashed_password)
        /\ ~is_account_locked(c.loaded, c.timestamp) )
      => ( /\ c.result = id
           /\ users[id].failed_login_attempts = 0
           /\ users[id].locked_until = NoTime
           /\ users[id].last_login_at = c.timestamp )

\* C2 witness: a login by email succeeds after four failures.
C2_Witness ==
    \E p \in Procs :
      /\ call[p].pc = "done"
      /\ call[p].result = "u1"
      /\ call[p].username = "alice@example.com"
      /\ call[p].loaded.failed_login_attempts = LOCK_THRESHOLD - 1
      /\ users["u1"].failed_login_attempts = 0

\* C3: two concurrent wrong-password calls on an account whose counter is 4
\* (both read 4, or the second reads what the first committed): once both
\* have completed the account is locked (counter at least 5, locked_until set
\* and in the future).
C3_RaceStillLocks ==
    \A p, q \in Procs :
      ( /\ p # q
        /\ call[p].pc = "done" /\ call[q].pc = "done"
        /\ call[p].loaded # NoUser
        /\ call[p].loaded.id = call[q].loaded.id
        /\ call[p].loaded.failed_login_attempts = LOCK_THRESHOLD - 1
        /\ call[p].failure_reason = "invalid_password"
        /\ ~RightPassword(call[q])
        /\ \/ /\ call[q].loaded.failed_login_attempts = LOCK_THRESHOLD - 1
              /\ call[q].failure_reason = "invalid_password"
           \/ call[q].loaded.failed_login_attempts >= LOCK_THRESHOLD )
      => LET row == users[call[p].loaded.id] IN
         /\ row.failed_login_attempts >= LOCK_THRESHOLD
         /\ row.locked_until # NoTime
         /\ now < row.locked_until

\* C3 witness: both calls read the counter at 4 and both failed the password
\* check (the lost update: the counter ends at 5, not 6).
C3_Witness ==
    \E p, q \in Procs :
      /\ p # q
      /\ call[p].pc = "done" /\ call[q].pc = "done"
      /\ call[p].failure_reason = "invalid_password"
      /\ call[q].failure_reason = "invalid_password"
      /\ call[p].loaded.id = "u1" /\ call[q].loaded.id = "u1"
      /\ call[p].loaded.failed_login_attempts = LOCK_THRESHOLD - 1
      /\ call[q].loaded.failed_login_attempts = LOCK_THRESHOLD - 1
      /\ users["u1"].failed_login_attempts = LOCK_THRESHOLD

\* The create_access_token calls that returned the token of the last response.
CreatedAs(token) ==
    {c \in issued : c.fn = "create_access_token" /\ c.token = token}

\* C4: for any account and any extra claims, verify_token of the token that
\* create_access_token(subject = account.id, additional_claims = claims)
\* returned, called before the token's expiry, returns a payload whose sub is
\* str(account.id) and in which every supplied extra claim has its supplied
\* value.
C4_RoundTripAnyClaims ==
    \A c \in CreatedAs(resp.token) :
       (resp.op = "verify_token" /\ resp.at < c.at + JWT_EXPIRE_MINUTES)
       => /\ resp.payload # NoPayload
          /\ Get(resp.payload, "sub") = Str(c.subject)
          /\ \A k \in DOMAIN c.additional_claims :
                Get(resp.payload, k) = c.additional_claims[k]

\* The token presented to the refresh endpoint was one it may honour:
\* validly signed, before its expiry and not revoked when presented, typed
\* "refresh", and its subject is the id of an existing active account.
Refreshable ==
    /\ resp.live
    /\ Get(resp.token.payload, "type") = "refresh"
    /\ get_by_id(Get(resp.token.payload, "sub")) # NoUser
    /\ get_by_id(Get(resp.token.payload, "sub")).is_active

\* C5: the refresh endpoint issues a new access token only if the presented
\* token is valid, carries type "refresh" and its subject is an existing
\* active account; every other token, an access token and any invalid token
\* included, is rejected and no access token is issued for it.
C5_RefreshOnlyForValidRefreshToken ==
    (resp.op = "refresh" /\ ~Refreshable)
    => (resp.status = 401 /\ resp.issued = Garbage)

\* C6: a token whose jti is in token_blacklist fails verify_token even when
\* its signature and expiry are valid.
C6_RevokedTokenFailsValidate ==
    (resp.op = "verify_token" /\ resp.revoked) => resp.payload = NoPayload

\* C7: require_role(role) passes an active account exactly when its role is
\* that role or it is a superuser; require_role("admin") answers 403 to every
\* active non-superuser account of role "user" and passes every active
\* superuser account whatever its role.
C7_RequireRole ==
    (resp.op = "require_role" /\ resp.user.is_active)
    => /\ resp.status = 200
            <=> (resp.user.role = resp.required \/ resp.user.is_superuser)
       /\ resp.status \in {200, 403}
       /\ ( /\ resp.required = "admin"
            /\ resp.user.role = "user"
            /\ ~resp.user.is_superuser ) => resp.status = 403
       /\ resp.user.is_superuser => resp.status = 200

\* require_role("admin") has passed an active superuser whose role is "user".
C7_Witness ==
    /\ resp.op = "require_role"
    /\ resp.required = "admin"
    /\ resp.user.is_active
    /\ resp.user.is_superuser
    /\ resp.user.role = "user"
    /\ resp.status = 200

\* The permission table as the specification states it.
PermissionTable ==
    [ admin     |-> {"read", "write", "delete", "manage_users"},
      moderator |-> {"read", "write", "moderate"},
      user      |-> {"read", "write_own"} ]

\* C8: require_permission(permission) passes an active account exactly when
\* it is a superuser or the table admin -> {read, write, delete, manage_users},
\* moderator -> {read, write, moderate}, user -> {read, write_own} grants the
\* permission to its role; a non-superuser account whose role the table does
\* not name is granted no permission.
C8_RequirePermission ==
    (resp.op = "require_permission" /\ resp.user.is_active)
    => /\ resp.status = 200
            <=> \/ resp.user.is_superuser
                \/ /\ resp.user.role \in DOMAIN PermissionTable
                   /\ resp.required \in PermissionTable[resp.user.role]
       /\ resp.status \in {200, 403}
       /\ ( /\ ~resp.user.is_superuser
            /\ resp.user.role \notin {"admin", "moderator", "user"} )
          => resp.status = 403

\* require_permission("read") has refused an active non-superuser account
\* whose role the table does not name.
C8_Witness ==
    /\ resp.op = "require_permission"
    /\ resp.required = "read"
    /\ resp.user.is_active
    /\ ~resp.user.is_superuser
    /\ resp.user.role = "guest"
    /\ resp.status = 403

\* C9: a token whose exp equals the current time is expired: verify_token
\* returns a payload only while now < exp.
C9_ExpiredAtExpiry ==
    (resp.op = "verify_token" /\ resp.payload # NoPayload)
    => resp.at < resp.payload.exp

\* C10: two verify_token calls on the same token, made while it is unexpired
\* and unrevoked, return the same payload, and a verify_token call changes no
\* account row, no call in progress, no created token and no entry of
\* token_blacklist.
C10_ValidateIdempotent ==
    /\ [](( /\ resp.op = "verify_token"
            /\ resp.twice
            /\ resp.first_live
            /\ resp.live ) => ( /\ resp.payload # NoPayload
                                /\ resp.payload = resp.first ))
    /\ [][(\E token \in Presented : VerifyToken(token))
          => UNCHANGED <<users, call, issued, token_blacklist>>]_vars

\* A token created with role and username was validated twice while live,
\* the second time after the clock had advanced.
C10_Witness ==
    /\ resp.op = "verify_token"
    /\ resp.twice
    /\ resp.first_live
    /\ resp.live
    /\ "role" \in DOMAIN resp.payload
    /\ resp.at > resp.payload.iat

\* The login requests that have been answered.
Answered == {p \in Procs : call[p].op = "login" /\ call[p].pc = "responded"}

\* The account the request named was locked when the request was served.
LockedAtCall(c) ==
    /\ c.loaded # NoUser
    /\ c.loaded.locked_until # NoTime
    /\ c.timestamp < c.loaded.locked_until

\* C11: a login on a locked account is answered 423 "Account is temporarily
\* locked", not with the 401 of bad credentials.
C11_LockedLoginIs423 ==
    \A p \in Answered :
       LockedAtCall(call[p]) => call[p].status = 423

\* C12: a login that fails because the identifier is unknown, the account is
\* inactive or the password is wrong gets the same result in every case:
\* authenticate returns no account, login answers 401 "Incorrect username or
\* password".
C12_NoEnumeration ==
    \A p \in Answered :
       ( \/ call[p].loaded = NoUser
         \/ ~call[p].loaded.is_active
         \/ ~RightPassword(call[p]) )
       => /\ call[p].result = "None"
          /\ call[p].status = 401
          /\ call[p].body = [detail |-> "Incorrect username or password"]

\* Logins have failed for an unknown identifier and for an inactive account
\* given its right password, with the same answer.
C12_Witness ==
    \E p \in Answered :
       /\ call[p].loaded # NoUser
       /\ ~call[p].loaded.is_active
       /\ RightPassword(call[p])
       /\ call[p].status = 401

\* The ledger entry of a token, if it was created.
IssuedAs(fn, token) == {c \in issued : c.fn = fn /\ c.token = token}

\* C13: login issues tokens exactly when authenticate returns an account:
\* then the response carries an access token whose subject is the account id
\* with the account's role and username, a refresh token, token_type
\* "bearer" and expires_in; when authenticate fails the answer is 401 and no
\* token is created for the request.
C13_LoginIssuesTokens ==
    /\ [](\A p \in Answered :
            IF call[p].result # "None"
            THEN /\ call[p].status = 200
                 /\ DOMAIN call[p].body =
                      {"access_token", "refresh_token", "token_type", "expires_in"}
                 /\ call[p].body.token_type = "bearer"
                 /\ call[p].body.expires_in = JWT_EXPIRE_MINUTES * 60
                 /\ IssuedAs("create_access_token", call[p].body.access_token) # {}
                 /\ IssuedAs("create_refresh_token", call[p].body.refresh_token) # {}
                 /\ LET claims == verify_token(call[p].body.access_token, now) IN
                    /\ Get(claims, "sub") = call[p].result
                    /\ Get(claims, "role") = users[call[p].result].role
                    /\ Get(claims, "username") = users[call[p].result].username
                 /\ Get(verify_token(call[p].body.refresh_token, now), "sub")
                      = call[p].result
            ELSE /\ call[p].status = 401
                 /\ DOMAIN call[p].body = {"detail"})
    /\ [][\A p \in Procs :
            (LoginReturn(p) /\ call[p].result = "None") => issued' = issued]_vars

\* A login with the right password has been answered with both tokens.
C13_Witness ==
    \E p \in Answered :
       /\ call[p].result = "u1"
       /\ call[p].status = 200
       /\ call[p].body.access_token.payload.sub = "u1"

EmailStored(email) == \E id \in DOMAIN users : users[id].email = email
UsernameStored(username) == \E id \in DOMAIN users : users[id].username = username

\* The step ends the registration or create_user call of p without an
\* account.
Rejected(p) ==
    /\ call[p].op \in {"register", "create_user"}
    /\ call[p].pc \notin {"idle", "done", "responded"}
    /\ call'[p].pc \in {"done", "responded"}
    /\ call'[p].result = "None"

\* C14: no two accounts ever share a username or an email.  A registration
\* whose email is stored is rejected with "Email already registered", also
\* when its username is stored too; one with a fresh email and a stored
\* username is rejected with "Username already taken"; a rejected
\* registration leaves the accounts unchanged.
C14_UniqueAccounts ==
    /\ [](\A a, b \in DOMAIN users :
            a # b => /\ users[a].username # users[b].username
                     /\ users[a].email # users[b].email)
    /\ [][\A p \in Procs :
            (RegisterCheckEmail(p) /\ EmailStored(call[p].email))
            => /\ call'[p].pc = "responded"
               /\ call'[p].status = 400
               /\ call'[p].body = [detail |-> "Email already registered"]]_vars
    /\ [][\A p \in Procs :
            (RegisterCheckUsername(p) /\ UsernameStored(call[p].username))
            => /\ call'[p].pc = "responded"
               /\ call'[p].status = 400
               /\ call'[p].body = [detail |-> "Username already taken"]]_vars
    /\ [][\A p \in Procs : Rejected(p) => users' = users]_vars

\* Two registrations raced for the same fresh username: one created the
\* account, the other was refused by the unique index.
C14_Witness ==
    \E p \in Procs :
       /\ call[p].op = "register"
       /\ call[p].raised = "IntegrityError"
       /\ call[p].status = 500
       /\ \E id \in NewIds \cap DOMAIN users :
             users[id].username = call[p].username

\* C15: logout requires authentication: a logout request without a valid
\* access token is answered 401, and only a request with a valid token gets
\* "Successfully logged out".
C15_LogoutRequiresToken ==
    resp.op = "logout" =>
       IF verify_token(resp.token, resp.at) = NoPayload
       THEN resp.status = 401
       ELSE resp.status = 200

\* C16: once a logout with token t has succeeded, t is never accepted by
\* verify_token again, expired or not.
C16_LogoutInvalidatesToken ==
    [][\A token \in Presented :
         ( /\ resp.op = "logout"
           /\ resp.status = 200
           /\ resp.token = token
           /\ VerifyToken(token) ) => resp'.payload = NoPayload]_vars

C18_CommitFailureStillFails ==
    \A p \in Procs :
       ( /\ call[p].pc = "done"
         /\ call[p].op = "None"
         /\ call[p].error = "SQLAlchemyError"
         /\ ~RightPassword(call[p]) )
       => /\ call[p].result = "None"
          /\ call[p].raised = "None"

\* The commit of a wrong-password attempt on an active, unlocked account
\* failed; the row was not changed.
C18_Witness ==
    \E p \in Procs :
       /\ call[p].pc = "done"
       /\ call[p].error = "SQLAlchemyError"
       /\ call[p].failure_reason = "invalid_password"
       /\ call[p].user.failed_login_attempts
            = users[call[p].loaded.id].failed_login_attempts + 1

\* C19: lockout is never terminal: for a locked, active account, an
\* authenticate call with the right password made once the clock has reached
\* locked_until succeeds.
C19_LockExpires ==
    \A p \in Procs :
       ( /\ call[p].pc = "done"
         /\ call[p].loaded # NoUser
         /\ call[p].loaded.is_active
         /\ call[p].loaded.locked_until # NoTime
         /\ call[p].timestamp >= call[p].loaded.locked_until
         /\ RightPassword(call[p]) )
       => /\ call[p].result = call[p].loaded.id
          /\ call[p].user.locked_until = NoTime
          /\ call[p].user.failed_login_attempts = 0

\* An account locked by five failures was entered with the right password at
\* the instant its lock ran out.
C19_Witness ==
    \E p \in Procs :
       /\ call[p].pc = "done"
       /\ call[p].loaded # NoUser
       /\ call[p].loaded.failed_login_attempts >= LOCK_THRESHOLD
       /\ call[p].loaded.locked_until = call[p].timestamp
       /\ call[p].result = call[p].loaded.id

\* C20: in the wrong-password branch and in the success branch the change of
\* failed_login_attempts, locked_until and last_login_at is committed before
\* authenticate returns: at the return the stored row carries the incremented
\* counter (and the lock it caused), or the login time and every counter the
\* success reset.
C20_PersistedBeforeReturn ==
    [][\A p \in Procs :
         (call[p].pc = "commit" /\ call'[p].pc = "done")
         => LET c   == call[p]
                row == users'[c.loaded.id]
            IN
            IF c.failure_reason = "invalid_password"
            THEN /\ row.failed_login_attempts = c.loaded.failed_login_attempts + 1
                 /\ c.loaded.failed_login_attempts + 1 >= LOCK_THRESHOLD
                    => row.locked_until = c.timestamp + LOCK_MINUTES
            ELSE /\ row.last_login_at = c.timestamp
                 /\ c.loaded.failed_login_attempts # 0
                    => row.failed_login_attempts = 0
                 /\ c.loaded.locked_until # NoTime
                    => row.locked_until = NoTime]_vars

\* A wrong-password call has returned and the stored counter is the one it
\* incremented.
C20_Witness ==
    \E p \in Procs :
       /\ call[p].pc = "done"
       /\ call[p].failure_reason = "invalid_password"
       /\ call[p].result = "None"
       /\ users[call[p].loaded.id].failed_login_attempts
            = call[p].loaded.failed_login_attempts + 1

\* C21: (sequential calls) every authenticate call that fails the password
\* check raises the stored failed_login_attempts by exactly 1; locked_until
\* becomes the time of the check + 30 minutes exactly when the new counter is
\* 5 or more and stays unset otherwise; the counter is never negative.
C21_CountsEachFailureOnce ==
    /\ [](\A id \in DOMAIN users : users[id].failed_login_attempts >= 0)
    /\ [][\A p \in Procs :
            ( /\ call[p].pc = "commit"
              /\ call[p].failure_reason = "invalid_password"
              /\ call'[p].pc = "done" )
            => LET id == call[p].loaded.id
                   n  == users[id].failed_login_attempts + 1
               IN
               /\ users'[id].failed_login_attempts = n
               /\ IF n >= LOCK_THRESHOLD
                  THEN users'[id].locked_until = call[p].timestamp + LOCK_MINUTES
                  ELSE /\ users'[id].locked_until = users[id].locked_until
                       /\ users'[id].locked_until = NoTime]_vars

\* A fourth failure in a row has been counted and has not locked the
\* account.
C21_Witness ==
    \E p \in Procs :
       /\ call[p].pc = "done"
       /\ call[p].failure_reason = "invalid_password"
       /\ call[p].loaded.failed_login_attempts = LOCK_THRESHOLD - 2
       /\ users[call[p].loaded.id].failed_login_attempts = LOCK_THRESHOLD - 1
       /\ users[call[p].loaded.id].locked_until = NoTime

\* C22: while an account is locked, no operation changes its locked_until or
\* its failed_login_attempts: an authenticate call made during the lock,
\* with a right or a wrong password, is refused as locked before any
\* password check and changes nothing, and update_user, update_password,
\* update_last_login and deactivate_user leave the lock and the counter as
\* they are.
C22_LockedIsFrozen ==
    /\ [](\A p \in Procs :
            (call[p].op = "None" /\ LockedAtCall(call[p]))
            => /\ call[p].pc = "done"
               /\ call[p].failure_reason = "account_locked"
               /\ call[p].result = "None"
               /\ call[p].user = call[p].loaded)
    /\ [][\A id \in DOMAIN users :
            is_account_locked(users[id], now)
            => /\ users'[id].locked_until = users[id].locked_until
               /\ users'[id].failed_login_attempts
                     = users[id].failed_login_attempts]_vars
    /\ [][\A p \in Procs :
            ServiceCommit(p)
            => LET id == call[p].loaded.id IN
               /\ users'[id].locked_until = users[id].locked_until
               /\ users'[id].failed_login_attempts
                     = users[id].failed_login_attempts]_vars

\* A locked account has been deactivated and is still locked, its counter
\* as it was.
C22_Witness ==
    \E p \in Procs :
       /\ call[p].pc = "done"
       /\ call[p].op = "deactivate_user"
       /\ call[p].result = "True"
       /\ call[p].loaded.is_active
       /\ LockedAtCall(call[p])
       /\ is_account_locked(users[call[p].loaded.id], now)
       /\ users[call[p].loaded.id].failed_login_attempts = LOCK_THRESHOLD

\* C23: inactive accounts cannot authenticate: whenever the account named
\* has is_active false (bob from the start, any account once deactivate_user
\* has succeeded), authenticate returns no account for every password and
\* leaves failed_login_attempts, locked_until and last_login_at as they were.
C23_InactiveCannotAuthenticate ==
    \A p \in Procs :
       LET c == call[p] IN
       (c.op = "None" /\ c.loaded # NoUser /\ ~c.loaded.is_active)
       => /\ c.pc = "done"
          /\ c.result = "None"
          /\ c.failure_reason \in {"account_inactive", "account_locked"}
          /\ c.user = c.loaded
          /\ \A col \in {"failed_login_attempts", "locked_until", "last_login_at"} :
                users[c.loaded.id][col] = c.loaded[col]

\* alice was deactivated; her next login with the right password was refused
\* as inactive.
C23_Witness ==
    \E p \in Procs :
       /\ call[p].pc = "done"
       /\ call[p].op = "None"
       /\ call[p].loaded.id = "u1"
       /\ ~call[p].loaded.is_active
       /\ RightPassword(call[p])
       /\ call[p].failure_reason = "account_inactive"
       /\ call[p].result = "None"

\* The guards of dependencies.py.
GuardOps ==
    {"get_current_active_user", "get_current_verified_user",
     "require_role", "require_permission"}

\* C24: the active and verified gates do not depend on role and are not
\* bypassed by superuser status: require_role and require_permission refuse
\* an inactive account with 400 before any role or permission check, also a
\* superuser; get_current_verified_user passes exactly the accounts that are
\* active and verified; a guard that passes returns the account it was given.
C24_GatesIndependentOfRole ==
    resp.op \in GuardOps
    => /\ ~resp.user.is_active
          => (resp.status = 400 /\ resp.returned = NoUser)
       /\ resp.op = "get_current_active_user"
          => (resp.status = 200 <=> resp.user.is_active)
       /\ resp.op = "get_current_verified_user"
          => (resp.status = 200 <=> (resp.user.is_active /\ resp.user.is_verified))
       /\ resp.status = 200 => resp.returned = resp.user
       /\ resp.status # 200 => resp.returned = NoUser

\* require_role("admin") has refused an inactive superuser of role "admin"
\* with 400.
C24_Witness ==
    /\ resp.op = "require_role"
    /\ resp.required = "admin"
    /\ resp.user.role = "admin"
    /\ resp.user.is_superuser
    /\ ~resp.user.is_active
    /\ resp.status = 400

\* C25: the counter update is a read-modify-write that is not atomic: when
\* two concurrent wrong-password calls on one account have both read the
\* counter at c and both have returned, failed_login_attempts is c + 1, not
\* c + 2; with c < 3 two failures are counted as one.
C25_LostUpdate ==
    \A p, q \in Procs :
      ( /\ p # q
        /\ call[p].pc = "done" /\ call[q].pc = "done"
        /\ call[p].failure_reason = "invalid_password"
        /\ call[q].failure_reason = "invalid_password"
        /\ call[p].loaded.id = call[q].loaded.id
        /\ call[p].loaded.failed_login_attempts
             = call[q].loaded.failed_login_attempts )
      => users[call[p].loaded.id].failed_login_attempts
           = call[p].loaded.failed_login_attempts + 1

\* Two concurrent failures on a fresh account were counted as one.
C25_Witness ==
    \E p, q \in Procs :
      /\ p # q
      /\ call[p].pc = "done" /\ call[q].pc = "done"
      /\ call[p].failure_reason = "invalid_password"
      /\ call[q].failure_reason = "invalid_password"
      /\ call[p].loaded.id = "u1" /\ call[q].loaded.id = "u1"
      /\ call[p].loaded.failed_login_attempts = 0
      /\ call[q].loaded.failed_login_attempts = 0
      /\ users["u1"].failed_login_attempts = 1

\* The call found an active account whose lock had run out.
AfterExpiry(c) ==
    /\ c.pc = "done"
    /\ c.op = "None"
    /\ c.loaded # NoUser
    /\ c.loaded.is_active
    /\ c.loaded.locked_until # NoTime
    /\ c.timestamp >= c.loaded.locked_until

\* C26: (sequential calls) the passing of locked_until resets nothing: the
\* counter stays at its value of 5 or more until the next attempt.  The
\* account is then unlocked: the right password succeeds and resets the
\* counter to 0 and clears locked_until; one wrong password raises the
\* counter by 1 and locks the account again, until 30 minutes after that
\* attempt.
C26_ExpiryKeepsCounter ==
    /\ [](\A id \in DOMAIN users :
            users[id].locked_until # NoTime
            => users[id].failed_login_attempts >= LOCK_THRESHOLD)
    /\ [][Tick => users' = users]_vars
    /\ [](\A p \in Procs :
            AfterExpiry(call[p])
            => LET c   == call[p]
                   row == users[c.loaded.id]
               IN
               IF RightPassword(c)
               THEN /\ c.result = c.loaded.id
                    /\ row.failed_login_attempts = 0
                    /\ row.locked_until = NoTime
               ELSE /\ c.result = "None"
                    /\ c.failure_reason = "invalid_password"
                    /\ row.failed_login_attempts
                         = c.loaded.failed_login_attempts + 1
                    /\ row.locked_until = c.timestamp + LOCK_MINUTES
                    /\ is_account_locked(row, now))

\* The lock of minute 0 ran out; the next wrong password made the counter 6
\* and locked the account for another 30 minutes.
C26_Witness ==
    \E p \in Procs :
       /\ AfterExpiry(call[p])
       /\ call[p].failure_reason = "invalid_password"
       /\ call[p].loaded.failed_login_attempts = LOCK_THRESHOLD
       /\ users[call[p].loaded.id].failed_login_attempts = LOCK_THRESHOLD + 1
       /\ users[call[p].loaded.id].locked_until = call[p].timestamp + LOCK_MINUTES

\* C27: in every reachable state of the users table, concurrent authenticate
\* calls included, locked_until set implies failed_login_attempts >= 5 and
\* failed_login_attempts = 0 implies locked_until cleared: a concurrent
\* success never contradicts the lock a concurrent failure wrote.
C27_LockMatchesCounter ==
    \A id \in DOMAIN users :
       /\ users[id].locked_until # NoTime
          => users[id].failed_login_attempts >= LOCK_THRESHOLD
       /\ users[id].failed_login_attempts = 0
          => users[id].locked_until = NoTime

\* C28: token types are not interchangeable on the access path: a refresh
\* token presented as a bearer credential is refused by
\* get_current_user_token; only a token that create_access_token issued
\* authenticates a request.
C28_RefreshTokenIsNoBearer ==
    resp.op = "get_current_user_token"
    => /\ Get(resp.token.payload, "type") = "refresh" => resp.status = 401
       /\ resp.status = 200
          => IssuedAs("create_access_token", resp.token) # {}

\* The requests that pass a guard on their bearer token.
RequestOps == {"active_user_request", "role_request", "permission_request"}

\* C29: authorization follows the stored account, not the token: a request
\* whose token names an account that is stored as inactive (deactivated
\* after the token was issued, say) is refused by get_current_active_user
\* and by the role and permission guards although the token is unexpired,
\* and the role the guards use is the role stored for the token's subject.
C29_AuthorizationFollowsAccount ==
    [][(resp'.op \in RequestOps /\ resp' # resp)
       => LET account == get_by_id(Get(resp'.token.payload, "sub")) IN
          /\ (account = NoUser \/ ~account.is_active) => resp'.status # 200
          /\ resp'.status = 200 => resp'.user.role = account.role]_vars

====
